---- MODULE Spec2Model ----
(***************************************************************************)
(* The graph evaluator of dag-flow's synthetic_graph C sources:            *)
(*   graph_ctypes/source/node.h          struct Node                       *)
(*   graph_ctypes/source/node.c          run_node                          *)
(*   graph_python_ctypes/source/library.c  input_fcn, sum_fcn, product_fcn,*)
(*                                       integration_fcn, sin_fcn, cosh_fcn*)
(* run_node is recursive; the model keeps its call stack explicitly and    *)
(* takes one step per call, operation invocation, release-loop iteration   *)
(* and return.  Pointers are addresses (NULL == 0), memory is a map from   *)
(* address to block, doubles are exact dyadic rationals.                   *)
(***************************************************************************)
EXTENDS Integers, Sequences, FiniteSets, TLC

\* ------------------------------------------------------------------ bounds
MaxNodes == 3      \* nodes of the largest graph
MaxArity == 2      \* inputs of the widest sum/product node
BufLen   == 2      \* elements of every buffer (the precomputed input size)
MaxVal   == 1      \* leaf elements are the integers 0..MaxVal
MaxEvals == 2      \* calls of run_node(root) made by the host
MaxMuts  == 1      \* leaf elements rewritten by the host between calls

VARIABLES
    node,    \* node[k]: the struct Node at index k (inputs refer to lower indices)
    mem,     \* heap: address -> [live, val]
    stack,   \* the active run_node frames, outermost first
    pc,      \* "idle" (the host prepares the graph) | "running" | "done" | "trap"
    ret,     \* the pointer the last completed run_node(root) returned
    log,     \* events of the current evaluation, in order: one per step taken
    pre,     \* the heap as it was when the current evaluation started
    evals,   \* evaluations started so far
    muts     \* host writes to leaf data so far

vars == <<node, mem, stack, pc, ret, log, pre, evals, muts>>

\* ------------------------------------------------------------ double values
\* A double d is modelled exactly as the dyadic rational <<m, e>> = m / 2^e,
\* normalised so that e = 0 or m is odd.
RECURSIVE Pow2(_)
Pow2(k) == IF k = 0 THEN 1 ELSE 2 * Pow2(k - 1)

RECURSIVE Norm(_, _)
Norm(m, e) == IF e > 0 /\ m % 2 = 0 THEN Norm(m \div 2, e - 1) ELSE <<m, e>>

D(k) == <<k, 0>>

DAdd(a, b) ==
    LET e == IF a[2] > b[2] THEN a[2] ELSE b[2]
    IN  Norm(a[1] * Pow2(e - a[2]) + b[1] * Pow2(e - b[2]), e)

DSub(a, b) == DAdd(a, <<0 - b[1], b[2]>>)

DMul(a, b) == Norm(a[1] * b[1], a[2] + b[2])

DHalf(a) == Norm(a[1], a[2] + 1)

\* sin and cosh of the integers 0..5, rounded to the nearest quarter
\* (sin is odd, cosh is even).
SinTab  == << <<3, 2>>, <<1, 0>>, <<1, 2>>, <<0 - 3, 2>>, <<0 - 1, 0>> >>
CoshTab == << <<3, 1>>, <<15, 2>>, <<10, 0>>, <<109, 2>>, <<297, 2>> >>

Sin(x) ==
    LET a == IF x[1] < 0 THEN 0 - x[1] ELSE x[1]
        s == IF a = 0 THEN D(0) ELSE SinTab[a]
    IN  IF x[1] < 0 THEN <<0 - s[1], s[2]>> ELSE s

Cosh(x) ==
    LET a == IF x[1] < 0 THEN 0 - x[1] ELSE x[1]
    IN  IF a = 0 THEN D(1) ELSE CoshTab[a]

\* ------------------------------------------------------------------ memory
NULL == 0

Vals == {D(v) : v \in 0..MaxVal}
Bufs == [1..BufLen -> Vals]
Fill(v) == [j \in 1..BufLen |-> v]

\* *(p + j), j counted from 0 as in C.  A read through NULL or through a
\* released block is undefined: it yields whatever is there, g[j].
Load(m, p, j, g) ==
    IF p = NULL \/ ~m[p].live THEN g[j + 1] ELSE m[p].val[j + 1]

\* *(p + j) = v.  A write through NULL or a released block is undefined:
\* when it does not trap it lands outside every modelled block.
Store(m, p, j, v) ==
    IF p = NULL \/ ~m[p].live THEN m ELSE [m EXCEPT ![p].val[j + 1] = v]

\* free(p): free(NULL) does nothing.
Free(m, p) == IF p = NULL THEN m ELSE [m EXCEPT ![p].live = FALSE]

Valid(m, p) == p # NULL /\ p \in DOMAIN m /\ m[p].live

\* ------------------------------------------------------- library.c operations
\* Every operation is fcn(lists, sizes, num_lists, data) and yields the
\* returned pointer and the heap it leaves: [ret, mem].  g supplies the
\* values of undefined reads.

\* malloc: a block at an address not used before
Malloc(m, val) ==
    LET used == DOMAIN m \cup {MaxNodes}
        a    == 1 + CHOOSE x \in used : \A y \in used : y <= x
    IN  [ret |-> a, mem |-> [x \in DOMAIN m \cup {a} |->
                               IF x = a THEN [live |-> TRUE, val |-> val] ELSE m[x]]]

\* mutant: the literal is copied into a new block
input_fcn_copy(m, lists, sizes, num_lists, data, g) ==
    IF data = NULL THEN [ret |-> data, mem |-> m] ELSE Malloc(m, m[data].val)

input_fcn(m, lists, sizes, num_lists, data, g) == [ret |-> data, mem |-> m]

\* the loop nest of lines 13-17, flattened: step k is (i, j) = (k div size, k mod size)
RECURSIVE SumLoop(_, _, _, _, _, _, _)
SumLoop(m, lists, size, num_lists, data, g, k) ==
    IF k >= num_lists * size THEN m
    ELSE LET i == k \div size
             j == k % size
         IN  SumLoop(Store(m, data, j,
                           DAdd(Load(m, data, j, g), Load(m, lists[i + 1], j, g))),
                     lists, size, num_lists, data, g, k + 1)

\* mutant: the outer loop starts at the second list
sum_fcn_skip(m, lists, sizes, num_lists, data, g) ==
    [ret |-> data, mem |-> SumLoop(m, lists, sizes[1], num_lists, data, g, sizes[1])]

\* mutant: the sums go to a block allocated by the call
sum_fcn_realloc(m, lists, sizes, num_lists, data, g) ==
    IF data = NULL THEN [ret |-> data, mem |-> m]
    ELSE LET a == Malloc(m, m[data].val)
         IN  [ret |-> a.ret, mem |-> SumLoop(a.mem, lists, sizes[1], num_lists, a.ret, g, 0)]

sum_fcn(m, lists, sizes, num_lists, data, g) ==
    [ret |-> data, mem |-> SumLoop(m, lists, sizes[1], num_lists, data, g, 0)]

RECURSIVE ProductLoop(_, _, _, _, _, _, _)
ProductLoop(m, lists, size, num_lists, data, g, k) ==
    IF k >= num_lists * size THEN m
    ELSE LET i == k \div size
             j == k % size
         IN  ProductLoop(Store(m, data, j,
                               DMul(Load(m, data, j, g), Load(m, lists[i + 1], j, g))),
                         lists, size, num_lists, data, g, k + 1)

product_fcn(m, lists, sizes, num_lists, data, g) ==
    [ret |-> data, mem |-> ProductLoop(m, lists, sizes[1], num_lists, data, g, 0)]

RECURSIVE IntegrationLoop(_, _, _, _, _, _, _)
IntegrationLoop(m, values, bins, size, data, g, i) ==
    IF i >= size - 1 THEN m
    ELSE LET term == DMul(DHalf(DAdd(Load(m, values, i, g), Load(m, values, i + 1, g))),
                          DSub(Load(m, bins, i + 1, g), Load(m, bins, i, g)))
         IN  IntegrationLoop(Store(m, data, 0, DAdd(Load(m, data, 0, g), term)),
                             values, bins, size, data, g, i + 1)

integration_fcn(m, lists, sizes, num_lists, data, g) ==
    [ret |-> data, mem |-> IntegrationLoop(m, lists[1], lists[2], sizes[1], data, g, 0)]

RECURSIVE SinLoop(_, _, _, _, _, _)
SinLoop(m, input, size, data, g, i) ==
    IF i >= size THEN m
    ELSE SinLoop(Store(m, data, i, Sin(Load(m, input, i, g))), input, size, data, g, i + 1)

\* mutant: the sines are written over the input
sin_fcn_inplace(m, lists, sizes, num_lists, data, g) ==
    [ret |-> data, mem |-> SinLoop(m, lists[1], sizes[1], lists[1], g, 0)]

sin_fcn(m, lists, sizes, num_lists, data, g) ==
    [ret |-> data, mem |-> SinLoop(m, lists[1], sizes[1], data, g, 0)]

RECURSIVE CoshLoop(_, _, _, _, _, _)
CoshLoop(m, input, size, data, g, i) ==
    IF i >= size THEN m
    ELSE CoshLoop(Store(m, data, i, Cosh(Load(m, input, i, g))), input, size, data, g, i + 1)

cosh_fcn(m, lists, sizes, num_lists, data, g) ==
    [ret |-> data, mem |-> CoshLoop(m, lists[1], sizes[1], data, g, 0)]

Fcns == {"input_fcn", "sum_fcn", "product_fcn", "integration_fcn", "sin_fcn", "cosh_fcn"}

\* node->fcn(input_results, node->input_sizes, node->input_count, node->data)
CallFcn(f, m, lists, sizes, num_lists, data, g) ==
    CASE f = "input_fcn"       -> input_fcn(m, lists, sizes, num_lists, data, g)
      [] f = "sum_fcn"         -> sum_fcn(m, lists, sizes, num_lists, data, g)
      [] f = "product_fcn"     -> product_fcn(m, lists, sizes, num_lists, data, g)
      [] f = "integration_fcn" -> integration_fcn(m, lists, sizes, num_lists, data, g)
      [] f = "sin_fcn"         -> sin_fcn(m, lists, sizes, num_lists, data, g)
      [] f = "cosh_fcn"        -> cosh_fcn(m, lists, sizes, num_lists, data, g)

\* The pointers an operation dereferences.
Derefs(f, lists, sizes, num_lists, data) ==
    CASE f = "input_fcn" -> {}
      [] f \in {"sum_fcn", "product_fcn"} ->
            IF num_lists > 0 /\ sizes[1] > 0
            THEN {data} \cup {lists[i] : i \in 1..num_lists} ELSE {}
      [] f = "integration_fcn" ->
            IF sizes[1] > 1 THEN {data, lists[1], lists[2]} ELSE {}
      [] f \in {"sin_fcn", "cosh_fcn"} ->
            IF sizes[1] > 0 THEN {data, lists[1]} ELSE {}

\* The call has undefined behaviour: it dereferences NULL or a released block.
Undefined(f, m, lists, sizes, num_lists, data) ==
    \E p \in Derefs(f, lists, sizes, num_lists, data) : ~Valid(m, p)

\* ------------------------------------------------------------------ graphs
\* Node k keeps its data buffer, when it has one, at address k.
InputCounts(f) ==
    CASE f = "input_fcn"                 -> 0..1
      [] f \in {"sum_fcn", "product_fcn"} -> 1..MaxArity
      [] f = "integration_fcn"           -> {2}
      [] f \in {"sin_fcn", "cosh_fcn"}    -> {1}

\* what the host seeds a node's buffer with
Seeds(f) ==
    CASE f = "input_fcn"   -> Bufs
      [] f = "product_fcn" -> {Fill(D(1))}
      [] OTHER             -> {Fill(D(0))}

MkNode(f, ins, d) ==
    [inputs |-> ins, input_sizes |-> [i \in 1..Len(ins) |-> BufLen],
     input_count |-> Len(ins), fcn |-> f, data |-> d]

\* sin and cosh are tabulated on integers: their input is a literal node
FeedOk(g, f, ins) ==
    f \in {"sin_fcn", "cosh_fcn"} => \A i \in 1..Len(ins) : g[ins[i]].fcn = "input_fcn"

Shapes(g, k) ==
    { MkNode(f, ins, d) :
        f \in Fcns, ins \in UNION {[1..c -> 1..(k - 1)] : c \in 0..MaxArity}, d \in {NULL, k} }

NodeChoices(g, k) ==
    { n \in Shapes(g, k) : n.input_count \in InputCounts(n.fcn) /\ FeedOk(g, n.fcn, n.inputs) }

RECURSIVE Graphs(_)
Graphs(k) ==
    IF k = 0 THEN {<< >>}
    ELSE UNION { {Append(g, n) : n \in NodeChoices(g, k)} : g \in Graphs(k - 1) }

RECURSIVE Reach(_, _)
Reach(g, k) == {k} \cup UNION {Reach(g, g[k].inputs[i]) : i \in 1..g[k].input_count}

\* the root is the last node, and the graph is what the root reaches
Root == Len(node)

RECURSIVE Depth(_, _)
Depth(g, k) ==
    LET ds == {Depth(g, g[k].inputs[i]) : i \in 1..g[k].input_count}
    IN  1 + (IF ds = {} THEN 0 ELSE CHOOSE d \in ds : \A e \in ds : e <= d)

\* ----------------------------------------------------------------- run_node
Top == stack[Len(stack)]

Frame(k, fid) ==
    [node |-> k, fid |-> fid, phase |-> "inputs", i |-> 0,
     input_results |-> << >>, result |-> NULL]

Event(ev, fid, k, idx, parent, ptr, args) ==
    [ev |-> ev, fid |-> fid, node |-> k, idx |-> idx, parent |-> parent,
     ptr |-> ptr, args |-> args]

ShouldFreeAlways(k, i) == TRUE

\* line 13: the release test on input i (0-based) of node k
ShouldFree(k, i) == node[node[k].inputs[i + 1]].data = NULL

\* mutant: the inputs are taken from the last to the first
InputAtReversed(k, i) == node[k].inputs[node[k].input_count - i]

\* mutant: the recursive call is made on the node itself
InputAtSelf(k, i) == k

\* line 8: the input evaluated at loop index i
InputAt(k, i) == node[k].inputs[i + 1]

\* the graphs the host builds, with the literals' contents drawn from lits
InitWith(lits) ==
    /\ \E n \in 1..MaxNodes : \E g \in Graphs(n) :
          /\ Reach(g, n) = 1..n
          /\ node = g
    /\ \E c \in [1..MaxNodes -> lits] :
          mem = [k \in {a \in 1..Len(node) : node[a].data # NULL} |->
                    [live |-> TRUE,
                     val  |-> IF node[k].fcn = "input_fcn" THEN c[k]
                              ELSE CHOOSE s \in Seeds(node[k].fcn) : TRUE]]
    /\ stack = << >>
    /\ pc = "idle"
    /\ ret = NULL
    /\ log = << >>
    /\ pre = mem
    /\ evals = 0
    /\ muts = 0

Init == InitWith(Bufs)

\* the host calls run_node(root)
Evaluate ==
    /\ pc \in {"idle", "done"}
    /\ evals < MaxEvals
    /\ stack' = << Frame(Root, 1) >>
    /\ log' = << Event("enter", 1, Root, 0, 0, NULL, << >>) >>
    /\ pc' = "running"
    /\ pre' = mem
    /\ evals' = evals + 1
    /\ UNCHANGED <<node, mem, ret, muts>>

\* the host rewrites one element of a literal node's data between calls
MutateLeaf ==
    /\ pc \in {"idle", "done"}
    /\ muts < MaxMuts
    /\ \E k \in 1..Len(node), j \in 0..(BufLen - 1), v \in Vals :
          /\ node[k].fcn = "input_fcn"
          /\ Valid(mem, node[k].data)
          /\ Load(mem, node[k].data, j, Fill(D(0))) # v
          /\ mem' = Store(mem, node[k].data, j, v)
    /\ muts' = muts + 1
    /\ pc' = "idle"
    /\ UNCHANGED <<node, stack, ret, log, pre, evals>>

\* where the innermost active call stands
\* line 7: i < node->input_count in the first loop
AtCall    == pc = "running" /\ Top.phase = "inputs" /\ Top.i < node[Top.node].input_count
\* line 10: the first loop is over
AtOperate == pc = "running" /\ Top.phase = "inputs" /\ Top.i = node[Top.node].input_count
\* line 12: i < node->input_count in the second loop
AtRelease == pc = "running" /\ Top.phase = "release" /\ Top.i < node[Top.node].input_count
\* line 17: the second loop is over
AtReturn  == pc = "running" /\ Top.phase = "release" /\ Top.i = node[Top.node].input_count

\* lines 7-9, one iteration: input_results[i] = run_node(node->inputs[i])
Call ==
    /\ AtCall
    /\ LET fid == Len(log) + 1
           c   == InputAt(Top.node, Top.i)
       IN  /\ stack' = Append(stack, Frame(c, fid))
           /\ log' = Append(log, Event("enter", fid, c, Top.i, Top.fid, NULL, << >>))
    /\ UNCHANGED <<node, mem, pc, ret, pre, evals, muts>>

\* line 10: result = node->fcn(input_results, input_sizes, input_count, data)
Operate ==
    /\ AtOperate
    /\ LET nd == node[Top.node]
           ub == Undefined(nd.fcn, mem, Top.input_results, nd.input_sizes,
                           nd.input_count, nd.data)
       IN  \/ /\ ub                      \* the bad access traps: the process dies
              /\ pc' = "trap"
              /\ UNCHANGED <<mem, stack, log>>
           \/ \E g \in IF ub THEN Bufs ELSE {Fill(D(0))} :
                LET r == CallFcn(nd.fcn, mem, Top.input_results, nd.input_sizes,
                                 nd.input_count, nd.data, g)
                IN  /\ mem' = r.mem
                    /\ stack' = [stack EXCEPT ![Len(stack)] =
                                   [@ EXCEPT !.phase = "release", !.i = 0, !.result = r.ret]]
                    /\ log' = Append(log, Event("op", Top.fid, Top.node, 0, 0, r.ret,
                                                Top.input_results))
                    /\ pc' = pc
    /\ UNCHANGED <<node, ret, pre, evals, muts>>

\* lines 12-16, one iteration: if (!node->inputs[i]->data) free(input_results[i])
Release ==
    /\ AtRelease
    /\ LET p == Top.input_results[Top.i + 1] IN
          IF ShouldFree(Top.node, Top.i)
          THEN /\ mem' = Free(mem, p)
               /\ log' = Append(log, Event("free", Top.fid, Top.node, Top.i, 0, p, << >>))
          ELSE /\ mem' = mem
               /\ log' = Append(log, Event("keep", Top.fid, Top.node, Top.i, 0, p, << >>))
    /\ stack' = [stack EXCEPT ![Len(stack)].i = @ + 1]
    /\ UNCHANGED <<node, pc, ret, pre, evals, muts>>

\* lines 17-19: free(input_results); return result
Return ==
    /\ AtReturn
    /\ log' = Append(log, Event("ret", Top.fid, Top.node, 0, 0, Top.result, << >>))
    /\ IF Len(stack) = 1
       THEN /\ stack' = << >>
            /\ pc' = "done"
            /\ ret' = Top.result
       ELSE /\ stack' = [SubSeq(stack, 1, Len(stack) - 1) EXCEPT ![Len(stack) - 1] =
                           [@ EXCEPT !.input_results = Append(@, Top.result),
                                     !.i = @ + 1]]
            /\ UNCHANGED <<pc, ret>>
    /\ UNCHANGED <<node, mem, pre, evals, muts>>

Next == Evaluate \/ MutateLeaf \/ Call \/ Operate \/ Release \/ Return

Spec == Init /\ [][Next]_vars


\* ------------------------------------------------------------------ claims
Nodes == 1..Len(node)

\* the log positions of the events of one kind
Events(kind) == {q \in 1..Len(log) : log[q].ev = kind}

\* the frame entered as input i of frame f, and the pointer it returned
ChildFid(f, i) == CHOOSE c \in Events("enter") : log[c].parent = f /\ log[c].idx = i
RetOf(c) == CHOOSE q \in Events("ret") : log[q].fid = c

\* C2 -- No persistent buffer (the data buffer of a node with non-null data)
\* is ever released: every such buffer stays a live block; in every completed
\* frame the result of input i was passed to free if and only if
\* inputs[i].data is null, and what was passed is that input's result.
C2_PersistentNeverReleased ==
    /\ \A k \in Nodes : node[k].data # NULL => Valid(mem, node[k].data)
    /\ \A r \in Events("free") : \A k \in Nodes : log[r].ptr = NULL \/ log[r].ptr # node[k].data
    /\ \A q \in Events("ret") :
          \A i \in 0..(node[log[q].node].input_count - 1) :
             LET frees == {r \in Events("free") : log[r].fid = log[q].fid /\ log[r].idx = i}
             IN  /\ (frees # {}) <=> (node[node[log[q].node].inputs[i + 1]].data = NULL)
                 /\ Cardinality(frees) <= 1
                 /\ \A r \in frees : r < q /\ log[r].ptr = log[RetOf(ChildFid(log[q].fid, i))].ptr

\* a second evaluation has completed on a graph whose root has one input with
\* persistent data (kept) and one without (its result passed to free)
C2_Witness ==
    /\ pc = "done" /\ evals = 2
    /\ node[Root].input_count = 2
    /\ node[node[Root].inputs[1]].data # NULL
    /\ node[node[Root].inputs[2]].data = NULL
    /\ \E r \in Events("free") : log[r].fid = 1 /\ log[r].idx = 1

\* C3 -- A leaf node (input_count = 0) whose operation is input returns its own
\* data pointer, the same block and no copy, and the evaluation leaves that
\* block's contents as they were.
C3_InputLeafIdentity ==
    \A q \in Events("ret") :
        LET k == log[q].node
        IN  (node[k].fcn = "input_fcn" /\ node[k].input_count = 0) =>
               /\ log[q].ptr = node[k].data
               /\ (pc # "idle" /\ node[k].data # NULL) =>
                      (Valid(mem, node[k].data) /\ mem[node[k].data] = pre[node[k].data])

\* a leaf below the root has returned its (non-null) data in a completed evaluation
C3_Witness ==
    /\ pc = "done"
    /\ \E q \in Events("ret") :
          /\ log[q].fid # 1
          /\ node[log[q].node].fcn = "input_fcn" /\ node[log[q].node].input_count = 0
          /\ node[log[q].node].data # NULL
          /\ log[q].ptr = node[log[q].node].data
          /\ mem[log[q].ptr].val # Fill(D(0))

\* the sum of element j of the first i buffers of lists
RECURSIVE ColumnSum(_, _, _, _)
ColumnSum(m, lists, j, i) ==
    IF i = 0 THEN D(0) ELSE DAdd(ColumnSum(m, lists, j, i - 1), m[lists[i]].val[j])

\* the step that invokes the operation of a sum node whose data holds zeros
\* and whose inputs all returned live buffers
SumOfSeeded ==
    /\ pc = "running" /\ Top.phase = "inputs"
    /\ node[Top.node].fcn = "sum_fcn"
    /\ Valid(mem, node[Top.node].data)
    /\ mem[node[Top.node].data].val = Fill(D(0))
    /\ \A i \in 1..Len(Top.input_results) : Valid(mem, Top.input_results[i])
    /\ pc' = "running" /\ Len(stack') = Len(stack)
    /\ stack'[Len(stack)].phase = "release"

\* C5 -- A sum node with k inputs of n elements and data seeded to n zeros
\* yields a buffer whose element j is the sum over the k inputs of element j
\* of that input's result, for every j.
C5_SumIsColumnSum ==
    [][SumOfSeeded =>
         LET r == stack'[Len(stack)].result
             k == node[Top.node].input_count
         IN  /\ Valid(mem', r)
             /\ \A j \in 1..BufLen :
                    mem'[r].val[j] = ColumnSum(mem', Top.input_results, j, k)]_vars

\* a zero-seeded sum node has just added two different buffers
C5_Witness ==
    /\ pc = "running" /\ evals = 1
    /\ Top.phase = "release" /\ Top.i = 0
    /\ node[Top.node].fcn = "sum_fcn" /\ node[Top.node].input_count = 2
    /\ Top.input_results[1] # Top.input_results[2]
    /\ Valid(mem, Top.input_results[1]) /\ Valid(mem, Top.input_results[2])
    /\ Valid(mem, Top.result) /\ Valid(pre, Top.result)
    /\ pre[Top.result].val = Fill(D(0))
    /\ mem[Top.result].val[1] = D(2)
    /\ mem[Top.result].val[2] = D(1)

\* the root reads only literal nodes that own their data
LeafFed ==
    /\ node[Root].data # NULL
    /\ node[Root].input_count > 0
    /\ \A i \in 1..node[Root].input_count :
          /\ node[node[Root].inputs[i]].fcn = "input_fcn"
          /\ node[node[Root].inputs[i]].data # NULL

LeafPtrs == [i \in 1..node[Root].input_count |-> node[node[Root].inputs[i]].data]

RECURSIVE ColumnProduct(_, _, _, _)
ColumnProduct(m, lists, j, i) ==
    IF i = 0 THEN D(1) ELSE DMul(ColumnProduct(m, lists, j, i - 1), m[lists[i]].val[j])

C9_BottomUpOrder ==
    /\ \A q \in Events("op") :
          LET f    == log[q].fid
              k    == log[q].node
              n    == node[k].input_count
              kids == {c \in Events("enter") : log[c].parent = f}
          IN  /\ \A o \in Events("op") : log[o].fid = f => o = q
              /\ Cardinality(kids) = n
              /\ Len(log[q].args) = n
              /\ \A i \in 0..(n - 1) :
                    \E c \in kids :
                       /\ log[c].idx = i
                       /\ log[c].node = node[k].inputs[i + 1]
                       /\ c < q
                       /\ \E r \in Events("ret") :
                             /\ log[r].fid = c /\ r < q
                             /\ log[q].args[i + 1] = log[r].ptr
                             /\ \A c2 \in kids : log[c2].idx > i => r < c2
              /\ \A r \in Events("free") :
                    /\ log[r].fid = f => q < r
                    /\ (r < q /\ log[r].ptr # NULL) =>
                          \A a \in 1..n : log[q].args[a] # log[r].ptr
    /\ \A r \in Events("free") : \E q \in Events("op") : q < r /\ log[q].fid = log[r].fid
    /\ \A e \in Events("ret") :
          /\ \E q \in Events("op") : q < e /\ log[q].fid = log[e].fid
          /\ \A r \in Events("free") : log[r].fid = log[e].fid => r < e

\* a three-level evaluation has completed whose root has two different inputs,
\* one of them released
C9_Witness ==
    /\ pc = "done"
    /\ Depth(node, Root) = 3
    /\ node[Root].input_count = 2
    /\ node[Root].inputs[1] # node[Root].inputs[2]
    /\ \E r \in Events("free") : log[r].fid = 1

\* C10 -- The evaluator leaves every node (inputs, input_sizes, input_count,
\* operation, data pointer) as it was and creates or destroys none; when an
\* evaluation has returned, the heap holds the same blocks, as live as before,
\* and the only blocks whose contents differ are data buffers of nodes whose
\* operation writes its data.
C10_FrameEffect ==
    /\ [][node' = node]_vars
    /\ [](pc = "done" =>
            /\ stack = << >>
            /\ DOMAIN mem = DOMAIN pre
            /\ \A a \in DOMAIN mem :
                  /\ mem[a].live = pre[a].live
                  /\ mem[a].val # pre[a].val =>
                        \E k \in Nodes : node[k].data = a /\ node[k].fcn # "input_fcn")

\* a second evaluation of a three-node graph has returned and wrote a buffer
C10_Witness ==
    /\ pc = "done" /\ evals = 2
    /\ Len(node) = 3
    /\ mem # pre

\* the steps run_node(k) takes: per input a call, the input's own steps and a
\* release-loop iteration, plus the operation and the return
RECURSIVE Cost(_, _)
Cost(g, k) ==
    LET n == g[k].input_count
        RECURSIVE Sum(_)
        Sum(i) == IF i = 0 THEN 0 ELSE Sum(i - 1) + 1 + Cost(g, g[k].inputs[i])
    IN  Sum(n) + n + 2

Fresh == DOMAIN mem \ DOMAIN pre

\* C1 -- After run_node(root) has returned, every block allocated during the
\* evaluation other than the root's result has been released exactly once,
\* and when the root has null data the allocation count is the release count
\* plus one.
C1_FreshReleasedOnce ==
    (pc = "done") =>
        /\ \A a \in Fresh \ {ret} :
              /\ ~mem[a].live
              /\ Cardinality({r \in Events("free") : log[r].ptr = a}) = 1
        /\ node[Root].data = NULL =>
              Cardinality(Fresh) = Cardinality({r \in Events("free") : log[r].ptr # NULL}) + 1

\* C4 -- When a node's data is null and its operation returns null, the
\* evaluation of that node does not return a result to its caller.
C4_NullResultFails ==
    \A q \in Events("op") :
        (node[log[q].node].data = NULL /\ log[q].ptr = NULL) =>
            ~\E r \in Events("ret") : log[r].fid = log[q].fid

\* C8 -- The buffer an operation returns is the node's data when data is
\* non-null, and a block allocated by the call when data is null.
C8_ResultIsDataOrFresh ==
    \A q \in Events("op") :
        LET d == node[log[q].node].data
        IN  IF d # NULL THEN log[q].ptr = d
            ELSE log[q].ptr # NULL /\ log[q].ptr \in Fresh

====
